---- MODULE Spec2Model ----
(***************************************************************************)
(* The matcher-set data providers of mosdns: plugin/data_provider/         *)
(* domain_set and plugin/data_provider/ip_set.                             *)
(*                                                                         *)
(* One run of the model is one process configured with one set (a          *)
(* domain_set or an ip_set, chosen by `kind`): the constructor             *)
(* NewDomainSet / NewIPSet is cut into steps at its blocking calls, each   *)
(* started updateRemoteFile goroutine is a task with its own position,     *)
(* and readers call Match on the composed group once the constructor       *)
(* returned.  The struct assignment `*m = *newMatcher` / `*l = *newList`   *)
(* is an unsynchronised multi-word copy: one step of the model copies one  *)
(* field.                                                                  *)
(***************************************************************************)
EXTENDS Integers, Sequences, FiniteSets, TLC

\* ------------------------------------------------------------------ bounds
\* Keys a reader may ask about are 1..NumKeys.
NumKeys == 2
\* How often the process may be started again after a failed construction.
MaxRestarts == 1
\* How many ticks the tickers of all tasks deliver together.
MaxTicks == 2

Keys == 1..NumKeys

\* ------------------------------------------------------------- rule lines
\* A line of rule text.  mode "full" / "domain" are the domain expressions
\* `full:k` and `domain:k`, mode "ip" is a prefix, mode "bad" is text no
\* parser accepts.  A rule admits exactly the key k.
FullRule(k) == [mode |-> "full", k |-> k]
DomainRule(k) == [mode |-> "domain", k |-> k]
IPRule(k) == [mode |-> "ip", k |-> k]
BadLine == [mode |-> "bad", k |-> 0]

\* What a path holds: no file (os.Stat reports IsNotExist), or a file with its
\* lines; partial marks a file that a failed io.Copy left behind.
NoFile == [exists |-> FALSE, lines |-> <<>>, partial |-> FALSE]
File(c) == [exists |-> TRUE, lines |-> c, partial |-> FALSE]
PartialFile(c) == [exists |-> TRUE, lines |-> c, partial |-> TRUE]

Sources == {"A", "B"}
\* args.RemoteFiles, in declaration order.
RemoteFiles == <<"A", "B">>

Range(s) == {s[i] : i \in DOMAIN s}

\* The keys the valid lines of a content admit.
ContentKeys(c) == {c[i].k : i \in {j \in DOMAIN c : c[j].mode # "bad"}}

\* ---------------------------------------------------------------- matchers
\* domain.MixMatcher: one sub-matcher per matching mode (regex and keyword
\* left out).  netlist.List: the prefix slice e and the sorted flag.
Fields(kd) == IF kd = "domain" THEN {"full", "domain"} ELSE {"e", "sorted"}

\* domain.NewDomainMixMatcher() / netlist.NewList()
NewMatcher(kd) ==
    IF kd = "domain" THEN [full |-> {}, domain |-> {}]
    ELSE [e |-> <<>>, sorted |-> FALSE]

\* m.Add(exp) / parseNetipPrefix + l.Append(p): the matcher after the line,
\* and whether the line was refused.
Add(kd, mm, line) ==
    IF kd = "domain" THEN
        CASE line.mode = "full" -> [m |-> [mm EXCEPT !.full = @ \cup {line.k}], err |-> FALSE]
          [] line.mode = "domain" -> [m |-> [mm EXCEPT !.domain = @ \cup {line.k}], err |-> FALSE]
          [] OTHER -> [m |-> mm, err |-> TRUE]
    ELSE
        IF line.mode = "ip"
        THEN [m |-> [e |-> Append(mm.e, line.k), sorted |-> FALSE], err |-> FALSE]
        ELSE [m |-> mm, err |-> TRUE]

\* m.Len() / l.Len()
MatcherLen(kd, mm) ==
    IF kd = "domain" THEN Cardinality(mm.full) + Cardinality(mm.domain)
    ELSE Len(mm.e)

RECURSIVE SetToSortedSeq(_)
SetToSortedSeq(S) ==
    IF S = {} THEN <<>>
    ELSE LET x == CHOOSE y \in S : \A z \in S : y <= z
         IN <<x>> \o SetToSortedSeq(S \ {x})

\* sort.Sort on the slice: ascending, every element kept.
RECURSIVE SortSlice(_)
SortSlice(e) ==
    IF e = <<>> THEN <<>>
    ELSE LET i == CHOOSE j \in DOMAIN e : \A l \in DOMAIN e : e[j] <= e[l]
         IN <<e[i]>> \o SortSlice(SubSeq(e, 1, i - 1) \o SubSeq(e, i + 1, Len(e)))

\* The slice is in ascending order, as the binary search needs it.
IsSorted(e) == \A i \in 1..(Len(e) - 1) : e[i] <= e[i + 1]

\* The slice List.Sort() leaves: ascending, overlapping prefixes merged.
SortedPrefixes(e) == SetToSortedSeq(Range(e))

\* l.Sort(): nothing when the flag is set.
SortList(mm) ==
    IF mm.sorted THEN mm ELSE [e |-> SortedPrefixes(mm.e), sorted |-> TRUE]

\* sort.Search over e: the first index in lo+1..hi whose element is >= k.
RECURSIVE Search(_, _, _, _)
Search(e, k, lo, hi) ==
    IF lo >= hi THEN lo
    ELSE LET mid == (lo + hi) \div 2
         IN IF e[mid + 1] >= k THEN Search(e, k, lo, mid)
            ELSE Search(e, k, mid + 1, hi)

\* List.Match by binary search (right only on a sorted slice).
ListContains(e, k) ==
    LET i == Search(e, k, 0, Len(e))
    IN i < Len(e) /\ e[i + 1] = k

\* Match of one matcher.
MatcherMatch(kd, mm, k) ==
    IF kd = "domain" THEN k \in mm.full \/ k \in mm.domain
    ELSE ListContains(mm.e, k)

\* List.Match panics on a list whose sorted flag is not set.
MatchPanics(kd, mm) == kd = "ip" /\ ~mm.sorted

Members(kd, mm) == {k \in Keys : MatcherMatch(kd, mm, k)}

\* The keys the rules held by a matcher admit, looked up or not.
Admitted(kd, mm) ==
    IF kd = "domain" THEN mm.full \cup mm.domain ELSE Range(mm.e)

\* domain.LoadFromTextReader / netlist.LoadFromReader: line by line, stopping
\* at the first refused line; the lines before it stay added.
RECURSIVE LoadLines(_, _, _)
LoadLines(kd, mm, lines) ==
    IF lines = <<>> THEN [m |-> mm, err |-> FALSE]
    ELSE LET r == Add(kd, mm, Head(lines))
         IN IF r.err THEN [m |-> mm, err |-> TRUE]
            ELSE LoadLines(kd, r.m, Tail(lines))

\* LoadFile / LoadFromFile: an empty path is skipped, os.ReadFile fails when
\* the path holds no file, and the lines are loaded into mm.
LoadFile(kd, f, file, mm) ==
    IF f = "" THEN [m |-> mm, err |-> FALSE]
    ELSE IF ~file.exists THEN [m |-> mm, err |-> TRUE]
    ELSE LoadLines(kd, mm, file.lines)

\* ----------------------------------------------------------- configuration
\* A valid rule of the set's key type.
Rule(kd, k) == IF kd = "domain" THEN DomainRule(k) ELSE IPRule(k)

\* The local rule files on disk (args.Files name them); any other path holds
\* no file.
LocalFile(kd, f) ==
    IF f = "local.txt" THEN File(<<Rule(kd, 1)>>) ELSE NoFile

\* The plugin registry: what bp.M().GetPlugin(tag) gives.  "geo" is a plugin
\* that provides a matcher of the key type, "seq" a plugin that does not,
\* any other tag no plugin.
IsProvider(tag) == tag = "geo"
ProviderKeys(tag) == IF tag = "geo" THEN {2} ELSE {}

\* The inline expressions and local files a run may be configured with: none;
\* valid ones; an invalid expression between valid ones; a missing file.
NoStatic == [exps |-> <<>>, files |-> <<>>]
GoodStatic(kd) == [exps |-> <<Rule(kd, 1)>>, files |-> <<"", "local.txt">>]
BadExpStatic(kd) == [exps |-> <<Rule(kd, 2), BadLine, Rule(kd, 1)>>, files |-> <<"local.txt">>]
BadFileStatic(kd) == [exps |-> <<Rule(kd, 1)>>, files |-> <<"local.txt", "missing.txt">>]

Intervals(a, b) == [s \in Sources |-> IF s = "A" THEN a ELSE b]

Args(st, ss, iv) == [exps |-> st.exps, files |-> st.files, sets |-> ss, interval |-> iv]

\* The configurations (Args) a run is started with.
ArgsChoices(kd) ==
    { Args(NoStatic, <<>>, Intervals(1, 1)),
      Args(GoodStatic(kd), <<"geo">>, Intervals(0, 1)),
      Args(GoodStatic(kd), <<>>, Intervals(-1, 0)),
      Args(GoodStatic(kd), <<"geo", "seq">>, Intervals(0, 1)),
      Args(NoStatic, <<"nil">>, Intervals(0, 0)),
      Args(BadExpStatic(kd), <<"geo">>, Intervals(1, 1)),
      Args(BadFileStatic(kd), <<>>, Intervals(1, 1)) }

\* What the remote server may answer to a download of a source's URL.
RemoteContents(kd, s) ==
    IF kd = "domain"
    THEN IF s = "A"
         THEN { <<>>, <<FullRule(1)>>, <<DomainRule(1)>>, <<DomainRule(1), BadLine>> }
         ELSE { <<>>, <<DomainRule(2), DomainRule(1)>> }
    ELSE IF s = "A"
         THEN { <<>>, <<IPRule(1)>>, <<IPRule(1), BadLine>> }
         ELSE { <<>>, <<IPRule(2), IPRule(1)>> }

Disk(a, b) == [s \in Sources |-> IF s = "A" THEN a ELSE b]

\* What a run may find at the two paths when it starts.
DiskChoices(kd) ==
    { Disk(NoFile, NoFile),
      Disk(NoFile, File(<<Rule(kd, 2)>>)),
      Disk(File(<<BadLine, Rule(kd, 1)>>), File(<<Rule(kd, 2)>>)) }

\* ------------------------------------------------------------ static loader
NoErr == [what |-> "none", idx |-> -1, line |-> BadLine, name |-> ""]
Failure(what, idx, line, name) == [what |-> what, idx |-> idx, line |-> line, name |-> name]

\* As LoadExps, with the loop going on after a refused expression and the
\* first error returned at its end.
RECURSIVE LoadExpsKeepGoing(_, _, _, _)
LoadExpsKeepGoing(kd, exps, i, mm) ==
    IF i >= Len(exps) THEN [m |-> mm, err |-> NoErr]
    ELSE LET r == Add(kd, mm, exps[i + 1])
             rest == LoadExpsKeepGoing(kd, exps, i + 1, r.m)
         IN IF r.err THEN [m |-> rest.m, err |-> Failure("exp", i, exps[i + 1], "")]
            ELSE rest

\* LoadExps / LoadFromIPs: the expressions in order, from 0-based index i;
\* the first refused one ends the loop with its index and text.
RECURSIVE LoadExps(_, _, _, _)
LoadExps(kd, exps, i, mm) ==
    IF i >= Len(exps) THEN [m |-> mm, err |-> NoErr]
    ELSE LET r == Add(kd, mm, exps[i + 1])
         IN IF r.err THEN [m |-> mm, err |-> Failure("exp", i, exps[i + 1], "")]
            ELSE LoadExps(kd, exps, i + 1, r.m)

\* LoadFiles / LoadFromFiles: the files in order, from 0-based index i.
RECURSIVE LoadFiles(_, _, _, _)
LoadFiles(kd, fs, i, mm) ==
    IF i >= Len(fs) THEN [m |-> mm, err |-> NoErr]
    ELSE LET r == LoadFile(kd, fs[i + 1], LocalFile(kd, fs[i + 1]), mm)
         IN IF r.err THEN [m |-> r.m, err |-> Failure("file", i, BadLine, fs[i + 1])]
            ELSE LoadFiles(kd, fs, i + 1, r.m)

\* LoadExpsAndFiles / LoadFromIPsAndFiles
LoadExpsAndFiles(kd, exps, fs, mm) ==
    LET r == LoadExps(kd, exps, 0, mm)
    IN IF r.err.what # "none" THEN r ELSE LoadFiles(kd, fs, 0, r.m)

\* ------------------------------------------------------------------- state
VARIABLES
    kind,        \* "domain" (NewDomainSet) or "ip" (NewIPSet)
    args,        \* the Args of the set
    disk,        \* what each remote source's local path holds
    pc,          \* where the constructor is
    cur,         \* index in RemoteFiles of the source the constructor handles
    out,         \* the local `out` slice of a running l.Sort()
    m,           \* the one matcher / list the constructor makes (m, l)
    mg,          \* the group of the returned set: "m" or a provider's tag
    err,         \* the error the constructor returned
    task,        \* the updateRemoteFile goroutine of each source
    tickBuf,     \* ticks waiting in each task's ticker channel (capacity 1)
    ticks,       \* ticks delivered by all tickers
    restarts,    \* process starts after a failed construction
    lastRead,    \* the last Match call of a reader and its answer
    seqLog,      \* the downloads and loads of the running load sequence
    seqFailed,   \* a step of some load sequence of this construction failed
    seqStale,    \* what the running load sequence found and loaded
    installers,  \* the tasks that copied into m
    lastLoaded,  \* the keys of the content each source loaded last
    lastInstall, \* the matcher of the last finished install
    snaps,       \* the complete matchers a reader may legitimately see
    partialOnly  \* keys m admits only because of a partially written file

vars == <<kind, args, disk, pc, cur, out, m, mg, err, task, tickBuf, ticks, restarts,
          lastRead, seqLog, seqFailed, seqStale, installers, lastLoaded,
          lastInstall, snaps, partialOnly>>

\* ------------------------------------------------------------- downloading
\* downloadFile(url, path) for source s: what it returns and what it leaves
\* at the path that held `old`.  http.Get failing, a status other than 200 and os.Create
\* failing leave the path alone; io.Copy failing leaves the truncated file
\* with the lines written so far; success leaves the whole body.
DownloadOutcomes(kd, s, old) ==
    {[ok |-> FALSE, file |-> old]}
    \cup UNION { {[ok |-> FALSE, file |-> PartialFile(SubSeq(c, 1, n))] :
                      n \in 0..(Len(c) - 1)} : c \in RemoteContents(kd, s) }
    \cup {[ok |-> TRUE, file |-> File(c)] : c \in RemoteContents(kd, s)}

\* --------------------------------------------------------------- the group
\* Match of one component of the group, with mm standing where "m" is.
ComponentMatch(kd, mm, c, k) ==
    IF c = "m" THEN MatcherMatch(kd, mm, k) ELSE k \in ProviderKeys(c)

\* A Match that asks the first component only.
MatchFirstOnly(kd, mm, g, k) ==
    g # <<>> /\ ComponentMatch(kd, mm, Head(g), k)

\* MatcherGroup.Match: the components in order, true at the first hit.
RECURSIVE MatcherGroupMatch(_, _, _, _)
MatcherGroupMatch(kd, mm, g, k) ==
    IF g = <<>> THEN FALSE
    ELSE IF ComponentMatch(kd, mm, Head(g), k) THEN TRUE
    ELSE MatcherGroupMatch(kd, mm, Tail(g), k)

\* What a reader's Match(k) on the returned set answers in this state.
GroupMatch(k) == MatcherGroupMatch(kind, m, mg, k)

\* ------------------------------------------------------------------- tasks
IdleTask(kd) ==
    [pc |-> "idle", newM |-> NewMatcher(kd), copied |-> {},
     dlOk |-> FALSE, loadOk |-> FALSE, same |-> FALSE]

Installing == {s \in Sources : task[s].pc = "install"}

\* ---------------------------------------------------------- initial states
NoSeq == [src |-> "", found |-> FALSE, stage |-> "none",
          before |-> {}, stale |-> {}, fresh |-> {}, after |-> {}]
NoInstall == [any |-> FALSE, keys |-> {}]
NoRead == [k |-> 0, hit |-> FALSE, panic |-> FALSE]

Init ==
    /\ kind \in {"domain", "ip"}
    /\ args \in ArgsChoices(kind)
    /\ disk \in DiskChoices(kind)
    /\ pc = "static"
    /\ cur = 1
    /\ out = <<>>
    /\ m = NewMatcher(kind)
    /\ mg = <<>>
    /\ err = NoErr
    /\ task = [s \in Sources |-> IdleTask(kind)]
    /\ tickBuf = [s \in Sources |-> 0]
    /\ restarts = 0
    /\ ticks = 0
    /\ lastRead = NoRead
    /\ seqLog = <<>>
    /\ seqFailed = FALSE
    /\ seqStale = NoSeq
    /\ installers = {}
    /\ lastLoaded = [s \in Sources |-> {}]
    /\ lastInstall = NoInstall
    /\ snaps = {}
    /\ partialOnly = {}

ctorVars == <<pc, cur, out, mg, err>>
taskVars == <<task, tickBuf, ticks>>
seqVars == <<seqLog, seqFailed, seqStale>>
ghostVars == <<installers, lastLoaded, lastInstall, snaps, partialOnly>>

\* The position after the loop over args.RemoteFiles.
AfterRemoteFiles(kd) == IF kd = "ip" THEN "sort" ELSE "compose"

\* ------------------------------------------------------------- constructor
\* NewDomainSet / NewIPSet up to the loop: the matcher is made and the
\* inline expressions and local files are loaded into it.
LoadStatic ==
    /\ pc = "static"
    /\ LET r == LoadExpsAndFiles(kind, args.exps, args.files, m)
       IN /\ m' = r.m
          /\ err' = r.err
          /\ pc' = IF r.err.what # "none" THEN "failed"
                   ELSE IF Len(RemoteFiles) = 0 THEN AfterRemoteFiles(kind)
                   ELSE "mkdir"
    /\ UNCHANGED <<kind, args, disk, cur, out, mg, taskVars, restarts, lastRead,
                   seqVars, ghostVars>>

\* The source the constructor's loop is at.
CurSource == RemoteFiles[cur]

\* What a load of the file at a source's path adds to a matcher.
LoadedKeys(kd, s, file) == Admitted(kd, LoadFile(kd, s, file, NewMatcher(kd)).m)

\* The constructor returns the error e.
Fail(e) ==
    /\ pc' = "failed"
    /\ err' = e
    /\ UNCHANGED <<cur, out, mg>>

\* LoadRemoteFile / LoadFromRemoteFile, os.MkdirAll of the path's directory.
MkdirAll ==
    /\ pc = "mkdir"
    /\ seqLog' = <<>>
    /\ seqStale' = [NoSeq EXCEPT !.src = CurSource, !.stage = "start"]
    /\ \E ok \in BOOLEAN :
          IF ok
          THEN /\ pc' = "ensure"
               /\ seqFailed' = seqFailed
               /\ UNCHANGED <<cur, out, mg, err>>
          ELSE /\ Fail(Failure("mkdir", cur - 1, BadLine, CurSource))
               /\ seqFailed' = TRUE
    /\ UNCHANGED <<kind, args, disk, m, taskVars, restarts, lastRead, ghostVars>>

\* As EnsureLocal, with the first download's error ignored.
EnsureLocalUnchecked ==
    /\ pc = "ensure"
    /\ seqStale' = [seqStale EXCEPT !.found = disk[CurSource].exists, !.stage = "ensured"]
    /\ IF disk[CurSource].exists
       THEN /\ pc' = "load1"
            /\ UNCHANGED <<cur, out, mg, err, disk, seqLog, seqFailed>>
       ELSE \E d \in DownloadOutcomes(kind, CurSource, disk[CurSource]) :
               /\ disk' = [disk EXCEPT ![CurSource] = d.file]
               /\ pc' = "load1"
               /\ seqLog' = Append(seqLog, IF d.ok THEN "download_ok" ELSE "download_failed")
               /\ seqFailed' = (seqFailed \/ ~d.ok)
               /\ UNCHANGED <<cur, out, mg, err>>
    /\ UNCHANGED <<kind, args, m, taskVars, restarts, lastRead, ghostVars>>

\* os.Stat of the path and, when it holds no file, the first downloadFile.
EnsureLocal ==
    /\ pc = "ensure"
    /\ seqStale' = [seqStale EXCEPT !.found = disk[CurSource].exists, !.stage = "ensured"]
    /\ IF disk[CurSource].exists
       THEN /\ pc' = "load1"
            /\ UNCHANGED <<cur, out, mg, err, disk, seqLog, seqFailed>>
       ELSE \E d \in DownloadOutcomes(kind, CurSource, disk[CurSource]) :
               /\ disk' = [disk EXCEPT ![CurSource] = d.file]
               /\ IF d.ok
                  THEN /\ pc' = "load1"
                       /\ seqLog' = Append(seqLog, "download_ok")
                       /\ UNCHANGED <<cur, out, mg, err, seqFailed>>
                  ELSE /\ Fail(Failure("download", cur - 1, BadLine, CurSource))
                       /\ seqLog' = Append(seqLog, "download_failed")
                       /\ seqFailed' = TRUE
    /\ UNCHANGED <<kind, args, m, taskVars, restarts, lastRead, ghostVars>>

\* A load of the file at a source's path into m: the keys it adds are in m
\* only because of a partial file when the file is one and m did not admit
\* them; a load of a whole file makes its keys legitimate.
BookLoad(s, file) ==
    LET added == LoadedKeys(kind, s, file)
    IN partialOnly' = IF file.partial
                      THEN partialOnly \cup (added \ Admitted(kind, m))
                      ELSE partialOnly \ added

\* The first load of the file at the path.  NewDomainSet's LoadRemoteFile
\* returns its error; NewIPSet's LoadFromRemoteFile drops it.
LoadFirst ==
    /\ pc = "load1"
    /\ LET s == CurSource
           r == LoadFile(kind, s, disk[s], m)
       IN /\ m' = r.m
          /\ BookLoad(s, disk[s])
          /\ seqLog' = Append(seqLog, IF r.err THEN "load_failed" ELSE "load_ok")
          /\ seqFailed' = (seqFailed \/ r.err)
          /\ seqStale' = [seqStale EXCEPT !.stage = "loaded1",
                                          !.before = Admitted(kind, m),
                                          !.stale = LoadedKeys(kind, s, disk[s])]
          /\ IF r.err /\ kind = "domain"
             THEN Fail(Failure("load", cur - 1, BadLine, s))
             ELSE /\ pc' = "download2"
                  /\ UNCHANGED <<cur, out, mg, err>>
    /\ UNCHANGED <<kind, args, disk, taskVars, restarts, lastRead,
                   installers, lastLoaded, lastInstall, snaps>>

\* The unconditional second downloadFile.
Redownload ==
    /\ pc = "download2"
    /\ \E d \in DownloadOutcomes(kind, CurSource, disk[CurSource]) :
          /\ disk' = [disk EXCEPT ![CurSource] = d.file]
          /\ IF d.ok
             THEN /\ pc' = "load2"
                  /\ seqLog' = Append(seqLog, "download_ok")
                  /\ UNCHANGED <<cur, out, mg, err, seqFailed>>
             ELSE /\ Fail(Failure("update", cur - 1, BadLine, CurSource))
                  /\ seqLog' = Append(seqLog, "download_failed")
                  /\ seqFailed' = TRUE
    /\ UNCHANGED <<kind, args, m, taskVars, restarts, lastRead, seqStale, ghostVars>>

\* The reload, with which LoadRemoteFile / LoadFromRemoteFile returns.
Reload ==
    /\ pc = "load2"
    /\ LET s == CurSource
           r == LoadFile(kind, s, disk[s], m)
       IN /\ m' = r.m
          /\ BookLoad(s, disk[s])
          /\ seqLog' = Append(seqLog, IF r.err THEN "load_failed" ELSE "load_ok")
          /\ seqFailed' = (seqFailed \/ r.err)
          /\ IF r.err
             THEN /\ Fail(Failure("load", cur - 1, BadLine, s))
                  /\ UNCHANGED <<lastLoaded, seqStale>>
             ELSE /\ pc' = "spawn"
                  /\ lastLoaded' = [lastLoaded EXCEPT ![s] = ContentKeys(disk[s].lines)]
                  /\ seqStale' = [seqStale EXCEPT !.stage = "returned",
                                                  !.fresh = ContentKeys(disk[s].lines),
                                                  !.after = Admitted(kind, r.m)]
                  /\ UNCHANGED <<cur, out, mg, err>>
    /\ UNCHANGED <<kind, args, disk, taskVars, restarts, lastRead,
                   installers, lastInstall, snaps>>

\* Back in the constructor's loop: `go updateRemoteFile(rf, m)` when the
\* source's interval is set, and on to the next source.
Spawn ==
    /\ pc = "spawn"
    /\ task' = IF args.interval[CurSource] > 0
               THEN [task EXCEPT ![CurSource].pc = "wait"]
               ELSE task
    /\ pc' = IF cur = Len(RemoteFiles) THEN AfterRemoteFiles(kind) ELSE "mkdir"
    /\ cur' = cur + 1
    /\ seqLog' = <<>>
    /\ seqStale' = NoSeq
    /\ UNCHANGED <<kind, args, disk, out, m, mg, err, tickBuf, ticks, restarts, lastRead,
                   seqFailed, ghostVars>>

\* l.Sort() of NewIPSet, first half: nothing when the flag is set; else the
\* slice is sorted in place and the merged slice `out` is built from it.
SortBegin ==
    /\ pc = "sort"
    /\ IF m.sorted
       THEN /\ pc' = "compose"
            /\ UNCHANGED <<m, out>>
       ELSE /\ m' = [m EXCEPT !.e = SortSlice(@)]
            /\ out' = SortedPrefixes(m.e)
            /\ pc' = "sortEnd"
    /\ UNCHANGED <<kind, args, disk, cur, mg, err, taskVars, restarts, lastRead,
                   seqVars, ghostVars>>

\* l.Sort(), second half: list.e = out; list.sorted = true.
SortEnd ==
    /\ pc = "sortEnd"
    /\ m' = [e |-> out, sorted |-> TRUE]
    /\ out' = <<>>
    /\ pc' = "compose"
    /\ UNCHANGED <<kind, args, disk, cur, mg, err, taskVars, restarts, lastRead,
                   seqVars, ghostVars>>

\* As ResolveSets, with a tag that is no provider passed over.
RECURSIVE ResolveSetsSkipping(_, _, _)
ResolveSetsSkipping(tags, i, g) ==
    IF i > Len(tags) THEN [mg |-> g, err |-> NoErr]
    ELSE IF ~IsProvider(tags[i]) THEN ResolveSetsSkipping(tags, i + 1, g)
    ELSE ResolveSetsSkipping(tags, i + 1, Append(g, tags[i]))

\* The group with the providers of the tags from index i on appended, and
\* the first tag that is no provider.
RECURSIVE ResolveSets(_, _, _)
ResolveSets(tags, i, g) ==
    IF i > Len(tags) THEN [mg |-> g, err |-> NoErr]
    ELSE IF ~IsProvider(tags[i]) THEN [mg |-> g, err |-> Failure("sets", i - 1, BadLine, tags[i])]
    ELSE ResolveSets(tags, i + 1, Append(g, tags[i]))

\* The group NewDomainSet / NewIPSet builds: m when it holds a rule, then
\* the providers of args.Sets.
ComposeGroup(kd, mm, tags) ==
    ResolveSets(tags, 1, IF MatcherLen(kd, mm) > 0 THEN <<"m">> ELSE <<>>)

\* The end of the constructor: the group is built and the set returned, or
\* the error of the first tag that is no provider.
Compose ==
    /\ pc = "compose"
    /\ LET r == ComposeGroup(kind, m, args.sets)
       IN IF r.err.what # "none"
          THEN /\ pc' = "failed"
               /\ err' = r.err
               /\ UNCHANGED <<mg, snaps>>
          ELSE /\ pc' = "done"
               /\ mg' = r.mg
               /\ snaps' = IF Installing = {} THEN {m} ELSE {}
               /\ UNCHANGED err
    /\ UNCHANGED <<kind, args, disk, cur, out, m, taskVars, restarts, lastRead,
                   seqVars, installers, lastLoaded, lastInstall, partialOnly>>

\* The process is started again after a failed construction: the tasks are
\* gone with the old process, the files stay.
Restart ==
    /\ pc = "failed"
    /\ restarts < MaxRestarts
    /\ restarts' = restarts + 1
    /\ pc' = "static"
    /\ cur' = 1
    /\ out' = <<>>
    /\ m' = NewMatcher(kind)
    /\ mg' = <<>>
    /\ err' = NoErr
    /\ task' = [s \in Sources |-> IdleTask(kind)]
    /\ tickBuf' = [s \in Sources |-> 0]
    /\ ticks' = 0
    /\ lastRead' = NoRead
    /\ seqLog' = <<>>
    /\ seqFailed' = FALSE
    /\ seqStale' = NoSeq
    /\ installers' = {}
    /\ lastLoaded' = [s \in Sources |-> {}]
    /\ lastInstall' = NoInstall
    /\ snaps' = {}
    /\ partialOnly' = {}
    /\ UNCHANGED <<kind, args, disk>>

\* ------------------------------------------------------------------ readers
\* A reader calls Match(k) on the returned set's group.
Match(k) ==
    /\ pc = "done"
    /\ LET panics == "m" \in Range(mg) /\ MatchPanics(kind, m)
       IN lastRead' = [k |-> k,
                       hit |-> ~panics /\ GroupMatch(k),
                       panic |-> panics]
    /\ UNCHANGED <<kind, args, disk, ctorVars, m, taskVars, restarts, seqVars, ghostVars>>

\* -------------------------------------------------- updateRemoteFile tasks
\* The ticker of a running task puts a tick in its channel; a tick that finds
\* the channel full is dropped.
TickerFire(s) ==
    /\ task[s].pc # "idle"
    /\ tickBuf[s] = 0
    /\ ticks < MaxTicks
    /\ ticks' = ticks + 1
    /\ tickBuf' = [tickBuf EXCEPT ![s] = 1]
    /\ UNCHANGED <<kind, args, disk, ctorVars, m, task, restarts, lastRead, seqVars, ghostVars>>

\* As TickBegin, with every tick handled on its arrival, wherever the
\* handling of the tick before it is.
TickBeginAnytime(s) ==
    /\ task[s].pc # "idle"
    /\ tickBuf[s] = 1
    /\ tickBuf' = [tickBuf EXCEPT ![s] = 0]
    /\ task' = [task EXCEPT ![s] = [pc |-> "download", newM |-> NewMatcher(kind),
                                   copied |-> {}, dlOk |-> FALSE, loadOk |-> FALSE,
                                   same |-> FALSE]]
    /\ UNCHANGED <<kind, args, disk, ctorVars, m, ticks, restarts, lastRead, seqVars, ghostVars>>

\* `for range ticker.C`: the loop takes a tick and the new, empty matcher is
\* made.
TickBegin(s) ==
    /\ task[s].pc = "wait"
    /\ tickBuf[s] = 1
    /\ tickBuf' = [tickBuf EXCEPT ![s] = 0]
    /\ task' = [task EXCEPT ![s] = [pc |-> "download", newM |-> NewMatcher(kind),
                                   copied |-> {}, dlOk |-> FALSE, loadOk |-> FALSE,
                                   same |-> FALSE]]
    /\ UNCHANGED <<kind, args, disk, ctorVars, m, ticks, restarts, lastRead, seqVars, ghostVars>>

\* A download of source s that fetched the file d finds at the path the whole
\* file of the fetch before it, with the same bytes.
SameAsLastFetched(s, d) ==
    disk[s].exists /\ ~disk[s].partial /\ d.lines = disk[s].lines

\* The tick's downloadFile: on an error `continue`.
TickDownload(s) ==
    /\ task[s].pc = "download"
    /\ \E d \in DownloadOutcomes(kind, s, disk[s]) :
          /\ disk' = [disk EXCEPT ![s] = d.file]
          /\ task' = IF d.ok
                     THEN [task EXCEPT ![s].pc = "load", ![s].dlOk = TRUE,
                                       ![s].same = SameAsLastFetched(s, d.file)]
                     ELSE [task EXCEPT ![s].pc = "wait"]
    /\ UNCHANGED <<kind, args, ctorVars, m, tickBuf, ticks, restarts, lastRead, seqVars, ghostVars>>

\* As TickLoad, with the load's error ignored.
TickLoadUnchecked(s) ==
    /\ task[s].pc = "load"
    /\ LET r == LoadFile(kind, s, disk[s], task[s].newM)
           loaded == IF kind = "ip" THEN SortList(r.m) ELSE r.m
       IN /\ task' = [task EXCEPT ![s].pc = "install", ![s].loadOk = ~r.err,
                                  ![s].newM = loaded]
          /\ snaps' = IF snaps = {} THEN {} ELSE snaps \cup {loaded}
    /\ UNCHANGED <<kind, args, disk, ctorVars, m, tickBuf, ticks, restarts, lastRead, seqVars,
                   installers, lastLoaded, lastInstall, partialOnly>>

\* The tick's load into the new matcher (and newList.Sort()): on an error
\* `continue`, else the tick goes on to the assignment.
TickLoad(s) ==
    /\ task[s].pc = "load"
    /\ LET r == LoadFile(kind, s, disk[s], task[s].newM)
           loaded == IF kind = "ip" THEN SortList(r.m) ELSE r.m
       IN IF r.err
          THEN /\ task' = [task EXCEPT ![s].pc = "wait", ![s].same = FALSE]
               /\ UNCHANGED snaps
          ELSE /\ task' = [task EXCEPT ![s].pc = "install", ![s].loadOk = TRUE,
                                       ![s].newM = loaded]
               /\ snaps' = IF snaps = {} THEN {} ELSE snaps \cup {loaded}
    /\ UNCHANGED <<kind, args, disk, ctorVars, m, tickBuf, ticks, restarts, lastRead, seqVars,
                   installers, lastLoaded, lastInstall, partialOnly>>

\* `*m = *newMatcher` / `*l = *newList`: one field of the struct is copied;
\* with the last field the tick is over.
TickInstall(s) ==
    /\ task[s].pc = "install"
    /\ \E f \in Fields(kind) \ task[s].copied :
          LET last == task[s].copied \cup {f} = Fields(kind)
              mNew == [m EXCEPT ![f] = task[s].newM[f]]
          IN /\ m' = mNew
             /\ installers' = installers \cup {s}
             /\ partialOnly' = {}
             /\ IF last
                THEN /\ task' = [task EXCEPT ![s].pc = "wait", ![s].copied = {},
                                             ![s].newM = NewMatcher(kind),
                                             ![s].same = FALSE]
                     /\ lastLoaded' = [lastLoaded EXCEPT ![s] = Admitted(kind, task[s].newM)]
                     /\ lastInstall' = [any |-> TRUE, keys |-> Admitted(kind, task[s].newM)]
                     /\ snaps' = IF pc = "done" /\ Installing = {s} THEN {mNew} ELSE snaps
                ELSE /\ task' = [task EXCEPT ![s].copied = @ \cup {f}]
                     /\ UNCHANGED <<lastLoaded, lastInstall, snaps>>
    /\ UNCHANGED <<kind, args, disk, ctorVars, tickBuf, ticks, restarts, lastRead, seqVars>>

\* ---------------------------------------------------------- specification
Next ==
    \/ LoadStatic
    \/ MkdirAll
    \/ EnsureLocal
    \/ LoadFirst
    \/ Redownload
    \/ Reload
    \/ Spawn
    \/ SortBegin
    \/ SortEnd
    \/ Compose
    \/ Restart
    \/ \E k \in Keys : Match(k)
    \/ \E s \in Sources : TickerFire(s)
    \/ \E s \in Sources : TickBegin(s)
    \/ \E s \in Sources : TickDownload(s)
    \/ \E s \in Sources : TickLoad(s)
    \/ \E s \in Sources : TickInstall(s)

Spec == Init /\ [][Next]_vars

\* The goroutine of a started task is scheduled, every download call returns
\* and its ticker keeps firing: no step of a task stays enabled for ever
\* without being taken.
TaskFairness ==
    \A s \in Sources :
        /\ WF_vars(TickerFire(s))
        /\ WF_vars(TickBegin(s))
        /\ WF_vars(TickDownload(s))
        /\ WF_vars(TickLoad(s))
        /\ WF_vars(TickInstall(s))

LiveSpec == Init /\ [][Next]_vars /\ TaskFairness

\* ------------------------------------------------------------------ claims
\* The keys the inline expressions and local files of the configuration admit.
StaticKeys ==
    Admitted(kind, LoadExpsAndFiles(kind, args.exps, args.files, NewMatcher(kind)).m)

\* The set was returned and no struct copy is under way.
Settled == pc = "done" /\ Installing = {}

\* C1: no torn reads.  Whatever Match(k) answers in a state where the set is
\* in use equals the answer of one of the complete matchers of that moment:
\* the one in place before the running installs began, or the new matcher
\* of one of them.
C1_NoTornReads ==
    (pc = "done" /\ snaps # {}) =>
        \A k \in Keys :
            GroupMatch(k) \in {MatcherGroupMatch(kind, inst, mg, k) : inst \in snaps}

\* C2: the static rules are immutable after construction.  Once the set was
\* returned, every key the inline expressions and local files admit is
\* matched by the group, whatever refresh ticks have run.
C2_StaticRulesStay ==
    Settled => \A k \in StaticKeys : GroupMatch(k)

\* C3: single writer per live matcher.  No matcher is ever installed into by
\* the refresh tasks of two sources.
C3_SingleWriter ==
    Cardinality(installers) <= 1

\* C4: a refresh of one source leaves the rules of the other sources alone.
\* Once the set was returned with the matcher in its group, every key of the
\* content each source loaded last is matched.
C4_OtherSourcesKept ==
    (Settled /\ "m" \in Range(mg)) =>
        \A s \in Sources : \A k \in lastLoaded[s] : GroupMatch(k)

\* C5: a failed refresh tick leaves the live data untouched.  The step in
\* which a tick's download or load fails and the task goes back to waiting
\* changes neither the matcher nor the group and reaches no caller (the
\* constructor's position and error, the readers' answers); and once the set
\* was returned the matcher changes only in a step of a tick whose download
\* and load both succeeded.
C5_FailedTickKeepsLiveData ==
    [][ /\ \A s \in Sources :
              (task[s].pc \in {"download", "load"} /\ task'[s].pc = "wait") =>
                  (m' = m /\ mg' = mg /\ pc' = pc /\ err' = err /\ lastRead' = lastRead)
        /\ (pc = "done" /\ m' # m) =>
              \E s \in Sources :
                  /\ task[s].pc = "install" /\ task[s].dlOk /\ task[s].loadOk
                  /\ \E f \in Fields(kind) : m' = [m EXCEPT ![f] = task[s].newM[f]]
      ]_vars

\* C5 happens: the set is in use, it holds rules, and a task is back waiting
\* after a tick whose download broke off or whose downloaded file did not
\* load (the file at its path is partial or holds a bad line; the file the
\* constructor left there was whole and loaded).
C5_Witness ==
    /\ pc = "done"
    /\ Admitted(kind, m) # {}
    /\ \E s \in Sources :
          /\ task[s].pc = "wait"
          /\ disk[s].exists
          /\ disk[s].partial \/ BadLine \in Range(disk[s].lines)

\* C6: the matcher the remote sources refresh is part of the group however
\* many rules it held when construction finished.  Once the set was returned,
\* every key of the content the last finished install put in place is
\* matched.
C6_RemoteAlwaysComposed ==
    (Settled /\ lastInstall.any) => \A k \in lastInstall.keys : GroupMatch(k)

\* C7: any failure in the construction-time load sequence is fatal, for both
\* key types.  When a step of a load sequence has failed, the constructor has
\* returned an error.
C7_LoadSequenceFailureFatal ==
    seqFailed => pc = "failed"

\* The running load sequence found no file at the source's path.
SeqFoundNoFile ==
    seqStale.stage \in {"ensured", "loaded1", "returned"} /\ ~seqStale.found

\* C8: when the local file does not exist, a download is attempted before any
\* load of the path, and when that download fails nothing is loaded and the
\* construction fails.
C8_DownloadBeforeLoad ==
    SeqFoundNoFile =>
        /\ seqLog # <<>>
        /\ seqLog[1] \in {"download_ok", "download_failed"}
        /\ seqLog[1] = "download_failed" => (seqLog = <<"download_failed">> /\ pc = "failed")

\* C8 happens: no file was found, the download failed, nothing was loaded and
\* the constructor returned an error.
C8_Witness ==
    /\ SeqFoundNoFile
    /\ seqLog = <<"download_failed">>
    /\ pc = "failed"
    /\ err.what = "download"

\* C9: no partial file is left matchable.  In a returned set no key is
\* matched that the matcher admits only because a partially written file was
\* loaded into it.
C9_NoPartialFileMatchable ==
    pc = "done" => \A k \in partialOnly : ~GroupMatch(k)

\* C10: with a stale local copy, the load sequence loads the stale copy,
\* downloads and loads the fresh content without clearing, so when it returns
\* the matcher admits exactly what it admitted before, the rules the load of
\* the stale copy added and the fresh content's rules.
C10_StaleThenFreshUnion ==
    (seqStale.stage = "returned" /\ seqStale.found) =>
        seqStale.after = seqStale.before \cup seqStale.stale \cup seqStale.fresh

\* C11: refresh idempotence.  When a tick fetched the bytes of the fetch before
\* it, the matcher it installs admits exactly the keys the matcher it
\* replaces admits (taken at the first step of the copy, with the set
\* returned and no other copy under way).
C11_RefreshIdempotent ==
    [][ \A s \in Sources :
            ( /\ pc = "done" /\ Installing = {s}
              /\ task[s].same /\ task[s].copied = {} /\ task'[s].copied # {} ) =>
                Admitted(kind, task[s].newM) = Admitted(kind, m)
      ]_vars

\* The position of a source in args.RemoteFiles.
SourceIndex(s) == CHOOSE i \in DOMAIN RemoteFiles : RemoteFiles[i] = s

\* The constructor's loop is past source s: its load sequence returned nil.
SeqReturned(s) == cur > SourceIndex(s)

\* C12: a refresh task runs for a source exactly when its interval is not 0
\* and only once its load sequence succeeded; and the rules a source with
\* interval 0 loaded at construction stay matched in the returned set.
\* Stated for the configurations without a negative interval (for one the
\* code, testing rf.Interval > 0, starts no task).
C12_TaskIffInterval ==
    (\A s \in Sources : args.interval[s] >= 0) =>
        \A s \in Sources :
            /\ task[s].pc # "idle" => (args.interval[s] # 0 /\ SeqReturned(s))
            /\ (SeqReturned(s) /\ args.interval[s] # 0) => task[s].pc # "idle"
            /\ (args.interval[s] = 0 /\ Settled /\ "m" \in Range(mg)) =>
                   \A k \in lastLoaded[s] : GroupMatch(k)

\* The orders in which the components of a group can be declared.
GroupOrders(g) ==
    {[i \in DOMAIN g |-> g[p[i]]] :
        p \in {q \in [DOMAIN g -> DOMAIN g] : \A i, j \in DOMAIN g : q[i] = q[j] => i = j}}

\* C13: MatcherGroup.Match is the OR of its components.  For the group of a
\* returned set, in every order of its components, Match(k) is true exactly
\* when some component matches k.
C13_MatchIsOr ==
    pc = "done" =>
        \A k \in Keys : \A g \in GroupOrders(mg) :
            MatcherGroupMatch(kind, m, g, k) <=>
                \E c \in Range(mg) : ComponentMatch(kind, m, c, k)

\* C13 happens: a group of two components in which one key is matched by the
\* second component only and another key by none.
C13_Witness ==
    /\ pc = "done" /\ Len(mg) = 2
    /\ \E k \in Keys : /\ ~ComponentMatch(kind, m, mg[1], k)
                       /\ ComponentMatch(kind, m, mg[2], k)
                       /\ GroupMatch(k)
    /\ \E k \in Keys : ~GroupMatch(k)

\* The positions in args.Sets of the tags that name no plugin or a plugin
\* without the matcher-provider capability.
BadTags == {i \in DOMAIN args.sets : ~IsProvider(args.sets[i])}

\* C14: a tag of `sets` that is no provider fails the construction with the
\* tag named.  With such a tag configured no set is ever returned, and the
\* error the resolution of the tags returns names the first such tag (an
\* error of an earlier step, a load or a download, is returned before the
\* tags are looked at).
C14_BadTagFails ==
    /\ BadTags # {} => (pc # "done" /\ mg = <<>>)
    /\ (pc = "failed" /\ err.what = "sets") =>
           /\ BadTags # {}
           /\ err.idx + 1 \in BadTags
           /\ \A i \in BadTags : err.idx + 1 <= i
           /\ err.name = args.sets[err.idx + 1]
    /\ (pc = "failed" /\ BadTags # {} /\ cur > Len(RemoteFiles)) => err.what = "sets"

\* C14 happens: the construction failed at a tag that follows a provider's
\* tag and names a plugin without the capability.
C14_Witness ==
    /\ pc = "failed" /\ err.what = "sets"
    /\ args.sets = <<"geo", "seq">> /\ err.name = "seq"

\* Whether the parser of the set's key type refuses a line.
Refused(line) == Add(kind, NewMatcher(kind), line).err

\* C15: the loader takes the inline expressions in order, then the files, and
\* stops at the first failure.  When the construction failed at an
\* expression, the error carries the 0-based index of the first refused
\* expression and its text, and the matcher holds the expressions before it
\* and nothing else: none of the later expressions, no file.
C15_FirstBadExpression ==
    (pc = "failed" /\ err.what = "exp") =>
        LET i == err.idx
        IN /\ i \in 0..(Len(args.exps) - 1)
           /\ Refused(args.exps[i + 1])
           /\ \A j \in 1..i : ~Refused(args.exps[j])
           /\ err.line = args.exps[i + 1]
           /\ m = LoadLines(kind, NewMatcher(kind), SubSeq(args.exps, 1, i)).m

\* C15 happens: the construction failed at the expression of index 1, with a
\* valid expression before it, one after it and a local file configured.
C15_Witness ==
    /\ pc = "failed" /\ err.what = "exp" /\ err.idx = 1
    /\ Len(args.exps) = 3 /\ ~Refused(args.exps[3]) /\ Len(args.files) > 0
    /\ Admitted(kind, m) = {2}

\* The positions of a task between the start of a tick's download and its
\* install or abandonment.
InFlight == {"download", "load", "install"}

\* C16: the ticks of a source are serialized.  A tick is taken from the
\* ticker's channel only by a task that has none in flight, and never more
\* than one tick waits in the channel, however long a download and load take.
C16_TicksSerialized ==
    [][ \A s \in Sources :
            /\ tickBuf'[s] <= 1
            /\ (tickBuf'[s] < tickBuf[s] /\ task'[s].pc \in InFlight) =>
                   (task[s].pc = "wait" /\ task'[s].pc = "download")
      ]_vars

\* C16 happens: a tick is in flight past its download while the next tick of
\* the same source already waits.
C16_Witness ==
    \E s \in Sources : task[s].pc \in {"load", "install"} /\ tickBuf[s] = 1

\* The positions at which NewDomainSet / NewIPSet still has writes to the
\* matcher ahead: the loads of the remote files and the final l.Sort().
StillWriting ==
    {"static", "mkdir", "ensure", "load1", "download2", "load2", "spawn", "sort", "sortEnd"}

\* C17: construction-time writes and refreshes do not interleave.  No task
\* has copied into the matcher while the constructor still writes to it, and
\* what the static loader wrote is in the matcher when the constructor comes
\* to compose the group and return.
C17_NoRefreshDuringConstruction ==
    /\ pc \in StillWriting => installers = {}
    /\ pc = "compose" => StaticKeys \subseteq Admitted(kind, m)

\* C18: the IP sortedness invariant.  Whenever a reader can look a key up in
\* the list of a returned IP set, the list's slice is sorted and its sorted
\* flag is set.
C18_ListSortedForReaders ==
    (kind = "ip" /\ pc = "done" /\ "m" \in Range(mg)) =>
        (IsSorted(m.e) /\ (m.sorted <=> IsSorted(m.e)))

\* C19: no refresh task outlives a failed construction.  When NewDomainSet /
\* NewIPSet has returned an error, no task started by it is running (waiting
\* for a tick, downloading to its path, loading or installing).
C19_NoTaskAfterError ==
    pc = "failed" => \A s \in Sources : task[s].pc = "idle"

\* C20: a failed tick never stops the task, and a tick whose download and
\* load both succeeded is eventually what readers are answered from: once
\* the set is returned and a tick of a source has loaded a content, the
\* group eventually matches every key of that content.  Stated for the
\* returned sets whose group was composed without the matcher: the group of
\* a returned set never changes, so there no later tick, however many
\* follow, changes the readers' answers.
C20_SuccessfulTickReachesReaders ==
    \A k \in Keys :
        ( /\ pc = "done" /\ "m" \notin Range(mg)
          /\ \E s \in Sources :
                 task[s].pc = "install" /\ k \in Admitted(kind, task[s].newM) )
            ~> GroupMatch(k)
====
